---- MODULE Spec2Model ----
(***************************************************************************)
(* A model of quark/Objects/quark.py: the five-stage rule evaluator        *)
(* (Quark.run), the call-graph search (find_intersection,                  *)
(* find_previous_method), the sequence check, the same-parameter check and *)
(* the two scoring reports.                                                *)
(*                                                                         *)
(* Texts (class names, method names, rendered method references) are       *)
(* sequences of one-character strings, so that Python's substring test     *)
(* `a in b` is a real substring test.  Python lists whose order is never   *)
(* observed (the caller lists of find_intersection) are sets; lists whose  *)
(* order is observed (wrappers, level_N_result, evidence) are sequences.   *)
(***************************************************************************)
EXTENDS Integers, Sequences, FiniteSets, TLC

VARIABLES
    apkinfo,          \* Quark.apkinfo: the parsed application (read-only)
    quark_analysis,   \* Quark.quark_analysis: the per-run accumulator
    rule_obj,         \* the RuleObject handed to run / the reports
    outcome,          \* how the last operation ended, and run's locals
    history,          \* the rules reported so far: (yscore, check_item)
    args,             \* the arguments of a single component call
    result,           \* what that component call returned
    stack             \* find_previous_method's call stack (one ascent)

vars == <<apkinfo, quark_analysis, rule_obj, outcome, history, args, result, stack>>

---------------------------------------------------------------------------
(* Bounds of the model.                                                    *)

MaxInstr == 3       \* instructions in all method bodies of an apk (run)
MaxReportCalls == 2 \* calls in mMain, in the analyses of several rules
MaxRules == 2       \* rules run and reported in one analysis
MaxEdges == 5       \* call edges of a call graph (search)
MaxAscentEdges == 4 \* call edges of a call graph (ascent)
MaxBody == 3        \* instructions in the mutual parent (parameter check)
MaxDepth == 8       \* frames of the recursion of one ascent

---------------------------------------------------------------------------
(* Texts.                                                                  *)

\* Python's `pat in txt` on strings.
Contains(pat, txt) ==
    \E i \in 0..(Len(txt) - Len(pat)) : SubSeq(txt, i + 1, i + Len(pat)) = pat

\* A method (androguard's MethodAnalysis): class_name and name.
Mth(c, n) == [class_name |-> c, name |-> n]

\* f"{m.class_name}->{m.name}"
Pattern(m) == m.class_name \o <<"-", ">">> \o m.name

mSend == Mth(<<"S">>, <<"s">>)
mSendAll == Mth(<<"S">>, <<"s", "a">>)   \* its key contains mSend's
mLoc == Mth(<<"L">>, <<"g">>)
mMain == Mth(<<"M">>, <<"r">>)
mHelp == Mth(<<"M">>, <<"h">>)
mNet == Mth(<<"N">>, <<"p">>)

AllMethods == {mSend, mSendAll, mLoc, mMain, mHelp, mNet}

\* Python's None where a method is expected.
NoMethod == Mth(<<>>, <<>>)

\* Python's None where a collection is expected, and a collection.
NoneSet == [is_none |-> TRUE, items |-> {}]
SomeSet(S) == [is_none |-> FALSE, items |-> S]

TypeText == <<"T">>
Registers == {"v0", "v1"}

\* All orders in which a set can be iterated.
Orders(S) ==
    {f \in [1..Cardinality(S) -> S] : \A x \in S : \E i \in DOMAIN f : f[i] = x}

\* Sequences over S of length at most n.
SeqsUpTo(S, n) == UNION {[1..k -> S] : k \in 0..n}

---------------------------------------------------------------------------
(* Apkinfo: permissions, and the bytecode of every method.  The symbol     *)
(* table, the callers and the call sites are those of the bytecode.        *)

Invoke(regs, m) ==
    [mnemonic |-> "invoke-virtual", registers |-> regs, parameter |-> Pattern(m)]
NewInstance(r) ==
    [mnemonic |-> "new-instance", registers |-> <<r>>, parameter |-> TypeText]
Move(d, s) ==
    [mnemonic |-> "move", registers |-> <<d, s>>, parameter |-> <<>>]
ReturnVoid ==
    [mnemonic |-> "return-void", registers |-> <<>>, parameter |-> <<>>]

IsInvoke(b) == b.mnemonic = "invoke-virtual"

\* The method an invoke's parameter names.
Callee(b) == CHOOSE m \in AllMethods : Pattern(m) = b.parameter

get_method_bytecode(apk, class_name, name) == apk.bytecode[Mth(class_name, name)]

\* MethodAnalysis.get_xref_to(): the call sites (callee, offset) of a method.
get_xref_to(apk, m) ==
    {<<Callee(apk.bytecode[m][i]), i>> :
        i \in {j \in DOMAIN apk.bytecode[m] : IsInvoke(apk.bytecode[m][j])}}

\* The methods androguard knows: those with a body and those called.
KnownMethods(apk) ==
    {m \in AllMethods : apk.bytecode[m] # <<>>}
        \cup UNION {{x[1] : x \in get_xref_to(apk, m)} : m \in AllMethods}

find_method(apk, class_name, name) ==
    IF Mth(class_name, name) \in KnownMethods(apk)
    THEN SomeSet({Mth(class_name, name)})
    ELSE NoneSet

\* The direct callers of a method; None when the method is unknown.
upperfunc(apk, class_name, name) ==
    IF find_method(apk, class_name, name).is_none
    THEN NoneSet
    ELSE SomeSet({c \in AllMethods :
                    \E x \in get_xref_to(apk, c) : x[1] = Mth(class_name, name)})

---------------------------------------------------------------------------
(* PyEval: the symbolic register evaluator.  table holds every value       *)
(* object produced, regs binds a register to an index of table (0: none).  *)

NewEval == [table |-> <<>>, regs |-> [r \in Registers |-> 0]]

ValueObject(v) == [value |-> v, called_by_func |-> <<>>]

\* new-instance / const-string / const: bind dst to a fresh value object.
EvalNew(ev, instruction) ==
    [table |-> Append(ev.table, ValueObject(instruction[Len(instruction)])),
     regs |-> [ev.regs EXCEPT ![instruction[2]] = Len(ev.table) + 1]]

\* move dst, src: dst is bound to src's object (a fresh unknown if unbound).
EvalMove(ev, instruction) ==
    IF ev.regs[instruction[3]] # 0
    THEN [ev EXCEPT !.regs[instruction[2]] = ev.regs[instruction[3]]]
    ELSE [table |-> Append(ev.table, ValueObject(<<"?">>)),
          regs |-> [ev.regs EXCEPT ![instruction[2]] = Len(ev.table) + 1]]

\* invoke {args}, MethodRef: append MethodRef to every argument's object.
RECURSIVE EvalInvokeArgs(_, _, _)
EvalInvokeArgs(ev, instruction, k) ==
    IF k >= Len(instruction) THEN ev
    ELSE LET r == instruction[k]
             func == instruction[Len(instruction)]
             ev1 == IF ev.regs[r] # 0
                    THEN [ev EXCEPT !.table[ev.regs[r]].called_by_func =
                                        Append(@, func)]
                    ELSE [ev EXCEPT !.table =
                              Append(@, [value |-> <<"?">>,
                                         called_by_func |-> <<func>>])]
         IN EvalInvokeArgs(ev1, instruction, k + 1)

EvalInvoke(ev, instruction) == EvalInvokeArgs(ev, instruction, 2)

\* pyeval.eval.keys()
EvalKeys == {"new-instance", "const-string", "move", "invoke-virtual"}

\* pyeval.eval[instruction[0]](instruction)
EvalDispatch(ev, instruction) ==
    CASE instruction[1] \in {"new-instance", "const-string"} -> EvalNew(ev, instruction)
      [] instruction[1] = "move" -> EvalMove(ev, instruction)
      [] instruction[1] = "invoke-virtual" -> EvalInvoke(ev, instruction)

\* pyeval.show_table(): every value object.
show_table(ev) == ev.table

---------------------------------------------------------------------------
(* Quark.find_intersection                                                 *)

MAX_SEARCH_LAYER == 3

\* Python's truth value of a list or None.
Truthy(l) == ~l.is_none /\ l.items # {}

\* list.extend(upperfunc(m)) for every m of the list whose upperfunc is not None
ExtendUpper(apk, method_list) ==
    method_list \cup
        UNION {upperfunc(apk, m.class_name, m.name).items :
                 m \in {x \in method_list :
                          ~upperfunc(apk, x.class_name, x.name).is_none}}

Raised == [kind |-> "ValueError", items |-> {}]
FoundNone == [kind |-> "None", items |-> {}]
Found(S) == [kind |-> "set", items |-> S]

\* The cap reached one layer early.
DepthExceededEarly(depth) == depth >= MAX_SEARCH_LAYER

\* if depth > MAX_SEARCH_LAYER, after depth += 1
DepthExceeded(depth) == depth > MAX_SEARCH_LAYER

RECURSIVE find_intersection(_, _, _, _)
find_intersection(apk, first_method_list, second_method_list, depth) ==
    IF Truthy(first_method_list) /\ Truthy(second_method_list)
    THEN LET res == first_method_list.items \cap second_method_list.items
         IN IF res # {}
            THEN Found(res)
            ELSE IF DepthExceeded(depth + 1)
                 THEN FoundNone
                 ELSE find_intersection(
                          apk,
                          SomeSet(ExtendUpper(apk, first_method_list.items)),
                          SomeSet(ExtendUpper(apk, second_method_list.items)),
                          depth + 1)
    ELSE Raised

---------------------------------------------------------------------------
(* Quark.find_previous_method, as one call: the set of its possible        *)
(* outcomes [wrapper, visited, expanded], one per iteration order of the   *)
(* caller sets.  expanded logs every upperfunc query of the ascent.        *)

NewAscent == [wrapper |-> <<>>, visited |-> {}, expanded |-> <<>>]

\* An ascent that never skips a visited method.
SkipNever(item, visited_methods) == FALSE

\* `if item in visited_methods: continue`
Skip(item, visited_methods) == item \in visited_methods

\* visited_methods.add(base_method), after the upperfunc query
Expand(st, base_method) ==
    [st EXCEPT !.visited = @ \cup {base_method},
               !.expanded = Append(@, base_method)]

\* wrapper.append(base_method)
Wrap(st, base_method) == [st EXCEPT !.wrapper = Append(@, base_method)]

\* An ascent that takes any caller for the parent.
ReachedParentAny(parent_function, method_set) == method_set # {}

\* `if parent_function in method_set`
ReachedParent(parent_function, method_set) == parent_function \in method_set

RECURSIVE find_previous_method(_, _, _, _), PreviousItems(_, _, _, _)
find_previous_method(apk, base_method, parent_function, st) ==
    LET method_set == upperfunc(apk, base_method.class_name, base_method.name)
        st1 == Expand(st, base_method)
    IN IF method_set.is_none
       THEN {st1}
       ELSE IF ReachedParent(parent_function, method_set.items)
            THEN {Wrap(st1, base_method)}
            ELSE PreviousItems(apk, parent_function, method_set.items, st1)

\* `for item in method_set`, in any order
PreviousItems(apk, parent_function, rest, st) ==
    IF rest = {}
    THEN {st}
    ELSE UNION {
           UNION {PreviousItems(apk, parent_function, rest \ {item}, s2) :
                    s2 \in IF Skip(item, st.visited)
                           THEN {st}
                           ELSE find_previous_method(apk, item, parent_function, st)} :
           item \in rest}

---------------------------------------------------------------------------
(* Quark.check_sequence                                                    *)

\* seq_table: the call sites of mutual_parent that call one of the two
SeqTable(apk, mutual_parent, first_call_method, second_call_method) ==
    {x \in get_xref_to(apk, mutual_parent) :
        x[1] \in {first_call_method, second_call_method}}

\* The call sites sorted by falling offset.
RECURSIVE SortedCallsDescending(_)
SortedCallsDescending(table) ==
    IF table = {}
    THEN <<>>
    ELSE LET hi == CHOOSE x \in table : \A y \in table : x[2] >= y[2]
         IN <<hi[1]>> \o SortedCallsDescending(table \ {hi})

\* seq_table.sort(key=operator.itemgetter(1)), then [x[0] for x in seq_table]
RECURSIVE SortedCalls(_)
SortedCalls(table) ==
    IF table = {}
    THEN <<>>
    ELSE LET lo == CHOOSE x \in table : \A y \in table : x[2] <= y[2]
         IN <<lo[1]>> \o SortedCalls(table \ {lo})

\* tools.contains: the ordered pattern occurs in target_list as a subsequence
RECURSIVE contains(_, _)
contains(subset_to_check, target_list) ==
    IF subset_to_check = <<>> THEN TRUE
    ELSE IF target_list = <<>> THEN FALSE
    ELSE IF Head(subset_to_check) = Head(target_list)
         THEN contains(Tail(subset_to_check), Tail(target_list))
         ELSE contains(subset_to_check, Tail(target_list))

\* the body of the two loops, for one pair: does it set state = True
SequencePair(apk, mutual_parent, first_call_method, second_call_method) ==
    LET seq_table == SeqTable(apk, mutual_parent, first_call_method, second_call_method)
    IN IF Cardinality(seq_table) < 2
       THEN FALSE
       ELSE contains(<<first_call_method, second_call_method>>, SortedCalls(seq_table))

check_sequence(apk, mutual_parent, first_method_list, second_method_list) ==
    \E i \in DOMAIN first_method_list : \E j \in DOMAIN second_method_list :
        SequencePair(apk, mutual_parent, first_method_list[i], second_method_list[j])

---------------------------------------------------------------------------
(* Quark.check_parameter                                                   *)

\* instruction = [mnemonic] + registers + [parameter]
Instruction(bytecode_obj) ==
    <<bytecode_obj.mnemonic>> \o bytecode_obj.registers
        \o (IF bytecode_obj.parameter # <<>> THEN <<bytecode_obj.parameter>> ELSE <<>>)

\* the loop over get_method_bytecode: feed every instruction to pyeval
RECURSIVE FeedAll(_, _, _)
FeedAll(ev, bytecode, k) ==
    IF k > Len(bytecode) THEN ev
    ELSE LET instruction == Instruction(bytecode[k])
         IN FeedAll(IF instruction[1] \in EvalKeys
                    THEN EvalDispatch(ev, instruction)
                    ELSE ev,
                    bytecode, k + 1)

EvalParent(apk, parent_function) ==
    FeedAll(NewEval,
            get_method_bytecode(apk, parent_function.class_name, parent_function.name),
            1)

\* `first_method_pattern in c_func and second_method_pattern in c_func`
PatternTest(first_method_pattern, second_method_pattern, c_func) ==
    Contains(first_method_pattern, c_func) /\ Contains(second_method_pattern, c_func)

\* the three loops over show_table() for one pair: is state set to True
ParameterPair(apk, parent_function, first_call_method, second_call_method) ==
    LET table == show_table(EvalParent(apk, parent_function))
    IN \E i \in DOMAIN table : \E j \in DOMAIN table[i].called_by_func :
          PatternTest(Pattern(first_call_method), Pattern(second_call_method),
                      table[i].called_by_func[j])

CallGraphAnalysis(qa, parent_function, first_call_method, second_call_method) ==
    [parent |-> parent_function,
     first_call |-> first_call_method,
     second_call |-> second_call_method,
     first_api |-> qa.first_api,
     second_api |-> qa.second_api,
     crime |-> qa.crime_description]

\* the two loops, pair k of Len(first) * Len(second); st = [state, qa]
RECURSIVE ParameterLoop(_, _, _, _, _, _)
ParameterLoop(apk, parent_function, first_method_list, second_method_list, k, st) ==
    IF k >= Len(first_method_list) * Len(second_method_list)
    THEN st
    ELSE LET first_call_method == first_method_list[(k \div Len(second_method_list)) + 1]
             second_call_method == second_method_list[(k % Len(second_method_list)) + 1]
             state == st.state \/ ParameterPair(apk, parent_function,
                                                first_call_method, second_call_method)
             qa == IF state
                   THEN [st.qa EXCEPT !.call_graph_analysis_list =
                            Append(@, CallGraphAnalysis(st.qa, parent_function,
                                          first_call_method, second_call_method))]
                   ELSE st.qa
         IN ParameterLoop(apk, parent_function, first_method_list, second_method_list,
                          k + 1, [state |-> state, qa |-> qa])

check_parameter(apk, qa, parent_function, first_method_list, second_method_list) ==
    ParameterLoop(apk, parent_function, first_method_list, second_method_list, 0,
                  [state |-> FALSE, qa |-> qa])

---------------------------------------------------------------------------
(* RuleObject and QuarkAnalysis                                            *)

NoChecks == <<FALSE, FALSE, FALSE, FALSE, FALSE>>

\* RuleObject(...): check_item starts all false.  writes is the order in
\* which check_item's entries were set since (the states run goes through).
RuleObject(crime, x1_permission, first, second, yscore) ==
    [crime |-> crime,
     x1_permission |-> x1_permission,
     x2n3n4_comb |-> <<[class |-> first.class_name, method |-> first.name],
                       [class |-> second.class_name, method |-> second.name]>>,
     yscore |-> yscore,
     check_item |-> NoChecks,
     writes |-> <<>>]

\* rule_obj.check_item.count(True)
CountTrue(check_item) == Cardinality({k \in DOMAIN check_item : check_item[k]})

\* rule_obj.get_score(confidence)
get_score(rule, confidence) ==
    IF confidence = 0 THEN 0 ELSE (2 ^ (confidence - 1)) * rule.yscore

\* QuarkAnalysis()
NewQuarkAnalysis ==
    [crime_description |-> "",
     first_api |-> NoMethod,
     second_api |-> NoMethod,
     level_2_result |-> <<>>,
     level_4_result |-> <<>>,
     level_5_result |-> <<>>,
     call_graph_analysis_list |-> <<>>,
     json_report |-> <<>>,
     summary_report_table |-> <<>>,
     weight_sum |-> 0,
     score_sum |-> 0]

\* QuarkAnalysis.clean_result(): the per-rule results, not the totals
clean_result(qa) ==
    [qa EXCEPT !.level_2_result = <<>>,
               !.level_4_result = <<>>,
               !.level_5_result = <<>>]

---------------------------------------------------------------------------
(* Quark.run.  A run is a record [rule, qa, exc, stage, parents, log]:     *)
(* the rule object and the analysis as run leaves them, the exception that *)
(* left run ("" when it returned), and run's locals: the result of         *)
(* find_intersection and, per mutual parent, the wrappers and the results  *)
(* of the two checks.                                                      *)

\* rule_obj.check_item[k - 1] = True
Check(rule, k) ==
    [rule EXCEPT !.check_item[k] = TRUE, !.writes = Append(@, k)]

NoParents == [kind |-> "", items |-> {}]

Ended(rule, qa, exc, parents, log) ==
    [rule |-> rule, qa |-> qa, exc |-> exc, parents |-> parents, log |-> log]

\* Level 1: set(rule_obj.x1_permission).issubset(set(self.apkinfo.permissions))
Level1(apk, rule) == rule.x1_permission \subseteq apk.permissions

\* Level 2 asking for both APIs, as level 3 does.
Level2Both(first_api, second_api) == ~first_api.is_none /\ ~second_api.is_none

\* Level 2: first_api is not None or second_api is not None
Level2(first_api, second_api) == ~first_api.is_none \/ ~second_api.is_none

\* Level 3: first_api is not None and second_api is not None
Level3(first_api, second_api) == ~first_api.is_none /\ ~second_api.is_none

\* list(self.apkinfo.find_method(...))[0]
FirstOf(found) == CHOOSE m \in found.items : TRUE

\* level_2_result after the two appends of level 2
Level2Result(first_api, second_api) ==
    (IF ~first_api.is_none THEN <<FirstOf(first_api)>> ELSE <<>>)
        \o (IF ~second_api.is_none THEN <<FirstOf(second_api)>> ELSE <<>>)

\* The loop body with the level 5 check outside the level 4 guard.
ParentBodyUnguarded(apk, parent_function, first_wrapper, second_wrapper, st) ==
    LET seq == check_sequence(apk, parent_function, first_wrapper, second_wrapper)
        par == check_parameter(apk, st.qa, parent_function, first_wrapper, second_wrapper)
        rule4 == IF seq THEN Check(st.rule, 4) ELSE st.rule
        qa4 == IF seq
               THEN [par.qa EXCEPT !.level_4_result = Append(@, parent_function)]
               ELSE par.qa
    IN [rule |-> IF par.state THEN Check(rule4, 5) ELSE rule4,
        qa |-> IF par.state
               THEN [qa4 EXCEPT !.level_5_result = Append(@, parent_function)]
               ELSE qa4,
        log |-> Append(st.log, [parent |-> parent_function,
                                first_wrapper |-> first_wrapper,
                                second_wrapper |-> second_wrapper,
                                sequence |-> seq,
                                parameter |-> par.state])]

\* the body of `for parent_function in mutual_parent_function_list`, with the
\* wrappers the two ascents gave; st = [rule, qa, log]
ParentBody(apk, parent_function, first_wrapper, second_wrapper, st) ==
    LET seq == check_sequence(apk, parent_function, first_wrapper, second_wrapper)
        par == check_parameter(apk, st.qa, parent_function, first_wrapper, second_wrapper)
        entry == [parent |-> parent_function,
                  first_wrapper |-> first_wrapper,
                  second_wrapper |-> second_wrapper,
                  sequence |-> seq,
                  parameter |-> seq /\ par.state]
    IN IF ~seq
       THEN [st EXCEPT !.log = Append(@, entry)]
       ELSE IF ~par.state
            THEN [rule |-> Check(st.rule, 4),
                  qa |-> [par.qa EXCEPT !.level_4_result = Append(@, parent_function)],
                  log |-> Append(st.log, entry)]
            ELSE [rule |-> Check(Check(st.rule, 4), 5),
                  qa |-> [par.qa EXCEPT !.level_4_result = Append(@, parent_function),
                                        !.level_5_result = Append(@, parent_function)],
                  log |-> Append(st.log, entry)]

\* the loop over the mutual parents, from the k-th of `parents` on
RECURSIVE ParentLoop(_, _, _, _, _, _)
ParentLoop(apk, first_api, second_api, parents, k, st) ==
    IF k > Len(parents)
    THEN {st}
    ELSE UNION {
           ParentLoop(apk, first_api, second_api, parents, k + 1,
                      ParentBody(apk, parents[k], a.wrapper, b.wrapper, st)) :
           a \in find_previous_method(apk, first_api, parents[k], NewAscent),
           b \in find_previous_method(apk, second_api, parents[k], NewAscent)}

\* Level 4 and 5, from `first_api_xref_from = ...` to the end of run
Level4(apk, rule, qa, first_api, second_api) ==
    LET first_api_xref_from == upperfunc(apk, first_api.class_name, first_api.name)
        second_api_xref_from == upperfunc(apk, second_api.class_name, second_api.name)
        mutual_parent_function_list ==
            find_intersection(apk, first_api_xref_from, second_api_xref_from, 1)
    IN CASE mutual_parent_function_list.kind = "ValueError" ->
              {Ended(rule, qa, "ValueError", mutual_parent_function_list, <<>>)}
         [] mutual_parent_function_list.kind = "None" ->
              {Ended(rule, qa, "", mutual_parent_function_list, <<>>)}
         [] mutual_parent_function_list.kind = "set" ->
              UNION {{Ended(st.rule, st.qa, "", mutual_parent_function_list, st.log) :
                        st \in ParentLoop(apk, first_api, second_api, parents, 1,
                                          [rule |-> rule, qa |-> qa, log |-> <<>>])} :
                     parents \in Orders(mutual_parent_function_list.items)}

\* Quark.run(rule_obj): every way it can end
run(apk, quark_analysis0, rule_obj0) ==
    LET qa0 == [clean_result(quark_analysis0) EXCEPT
                    !.crime_description = rule_obj0.crime]
        comb == rule_obj0.x2n3n4_comb
        first_api == find_method(apk, comb[1].class, comb[1].method)
        second_api == find_method(apk, comb[2].class, comb[2].method)
        qa2 == [qa0 EXCEPT !.level_2_result = Level2Result(first_api, second_api)]
        qa3 == [qa2 EXCEPT !.first_api = FirstOf(first_api),
                           !.second_api = FirstOf(second_api)]
    IN IF ~Level1(apk, rule_obj0)
       THEN {Ended(rule_obj0, qa0, "", NoParents, <<>>)}
       ELSE IF ~Level2(first_api, second_api)
            THEN {Ended(Check(rule_obj0, 1), qa0, "", NoParents, <<>>)}
            ELSE IF ~Level3(first_api, second_api)
                 THEN {Ended(Check(Check(rule_obj0, 1), 2), qa2, "", NoParents, <<>>)}
                 ELSE Level4(apk, Check(Check(Check(rule_obj0, 1), 2), 3), qa3,
                             FirstOf(first_api), FirstOf(second_api))

---------------------------------------------------------------------------
(* Quark.generate_json_report and Quark.show_summary_report                *)

\* A report that adds the score of a rule only when all five stages passed.
ReportScorePassed(rule) == IF CountTrue(rule.check_item) = 5 THEN rule.yscore ELSE 0

\* the score a report adds to score_sum
ReportScore(rule) == rule.yscore

\* the weight a report adds to weight_sum
ReportWeight(rule) == get_score(rule, CountTrue(rule.check_item))

Confidence(rule) == CountTrue(rule.check_item) * 20

AsPairs(methods) ==
    [i \in DOMAIN methods |-> [class |-> methods[i].class_name,
                                method |-> methods[i].name]]

generate_json_report(qa, rule) ==
    LET crime ==
          [crime |-> rule.crime,
           score |-> ReportScore(rule),
           weight |-> ReportWeight(rule),
           confidence |-> Confidence(rule),
           permissions |-> IF rule.check_item[1] THEN rule.x1_permission ELSE {},
           native_api |-> IF rule.check_item[2] THEN AsPairs(qa.level_2_result) ELSE <<>>,
           combination |-> IF rule.check_item[3] THEN rule.x2n3n4_comb ELSE <<>>,
           sequence |-> IF qa.level_4_result # <<>> /\ rule.check_item[4]
                        THEN AsPairs(qa.level_4_result) ELSE <<>>,
           register |-> IF qa.level_4_result # <<>> /\ rule.check_item[4]
                           /\ qa.level_5_result # <<>> /\ rule.check_item[5]
                        THEN AsPairs(qa.level_5_result) ELSE <<>>]
    IN [qa EXCEPT !.json_report = Append(@, crime),
                  !.weight_sum = @ + ReportWeight(rule),
                  !.score_sum = @ + ReportScore(rule)]

show_summary_report(qa, rule) ==
    [qa EXCEPT !.summary_report_table =
                   Append(@, <<rule.crime, Confidence(rule), ReportScore(rule),
                               ReportWeight(rule)>>),
               !.weight_sum = @ + ReportWeight(rule),
               !.score_sum = @ + ReportScore(rule)]

---------------------------------------------------------------------------
(* The analysis of one apk: rules are run and reported one after another.  *)

Permissions == {"SEND_SMS"}

\* the instructions of the app's methods
RunInstrs ==
    {NewInstance("v0")} \cup {Invoke(<<"v0">>, m) : m \in {mSend, mSendAll, mLoc, mHelp}}

\* the apks: mMain and mHelp have bodies, of MaxInstr instructions together
RunApks ==
    {[permissions |-> p,
      bytecode |-> [m \in AllMethods |->
                      IF m = mMain THEN b[1] ELSE IF m = mHelp THEN b[2] ELSE <<>>]] :
        p \in SUBSET Permissions,
        b \in {c \in SeqsUpTo(RunInstrs, MaxInstr) \X SeqsUpTo(RunInstrs, MaxInstr) :
                 Len(c[1]) + Len(c[2]) <= MaxInstr}}

\* the API pairs of the rules
RulePairs ==
    {<<mSend, mLoc>>, <<mSend, mSendAll>>, <<mLoc, mSend>>, <<mSend, mHelp>>,
     <<mSend, mSend>>}

RuleSet ==
    {RuleObject(<<x, pair>>, x, pair[1], pair[2], Len(Pattern(pair[2]))) :
        x \in SUBSET Permissions, pair \in RulePairs}

Idle == [op |-> "", exc |-> "", parents |-> NoParents, log |-> <<>>]

NoCall == [op |-> ""]

\* Quark(apk), and the rules the analysis is given: which, and how many
Analysis(apks, rules, rule_files) ==
    /\ apkinfo \in apks
    /\ quark_analysis = NewQuarkAnalysis
    /\ rule_obj = RuleObject("", {}, NoMethod, NoMethod, 0)
    /\ outcome = Idle
    /\ history = <<>>
    /\ args \in {[op |-> "analysis", rules |-> n, rule_files |-> rule_files] :
                  n \in rules}
    /\ result = NoCall
    /\ stack = <<>>

\* one rule, any apk of RunApks
Init == Analysis(RunApks, {1}, RuleSet)

\* rule = RuleObject(...); quark.run(rule)
Run ==
    /\ args.op = "analysis"
    /\ outcome.op # "run"
    /\ Len(history) < args.rules
    /\ \E rule \in args.rule_files : \E r \in run(apkinfo, quark_analysis, rule) :
          /\ rule_obj' = r.rule
          /\ quark_analysis' = r.qa
          /\ outcome' = [op |-> "run", exc |-> r.exc, parents |-> r.parents,
                         log |-> r.log]
    /\ UNCHANGED <<apkinfo, history, args, result, stack>>

Reported(op) ==
    /\ outcome' = [outcome EXCEPT !.op = op]
    /\ history' = Append(history, [yscore |-> rule_obj.yscore,
                                   check_item |-> rule_obj.check_item])
    /\ UNCHANGED <<apkinfo, rule_obj, args, result, stack>>

\* quark.generate_json_report(rule), after run returned
GenerateJsonReport ==
    /\ outcome.op = "run"
    /\ outcome.exc = ""
    /\ quark_analysis' = generate_json_report(quark_analysis, rule_obj)
    /\ Reported("json")

\* quark.show_summary_report(rule), after run returned
ShowSummaryReport ==
    /\ outcome.op = "run"
    /\ outcome.exc = ""
    /\ quark_analysis' = show_summary_report(quark_analysis, rule_obj)
    /\ Reported("summary")

Next == Run \/ GenerateJsonReport \/ ShowSummaryReport

Spec == Init /\ [][Next]_vars

\* the apks of the analyses of several rules: mMain alone has a body
ReportApks ==
    {[permissions |-> p,
      bytecode |-> [m \in AllMethods |-> IF m = mMain THEN b ELSE <<>>]] :
        p \in SUBSET Permissions,
        b \in SeqsUpTo({Invoke(<<"v0">>, m) : m \in {mSend, mSendAll, mLoc}},
                       MaxReportCalls)}

\* up to MaxRules rules, any apk of ReportApks
InitReports == Analysis(ReportApks, 1..MaxRules, RuleSet)

SpecReports == InitReports /\ [][Next]_vars

---------------------------------------------------------------------------
(* Analyses of apks given by their call graphs.                            *)

\* the sets of at most k of the edges E
RECURSIVE EdgeSets(_, _)
EdgeSets(E, k) ==
    IF k = 0
    THEN {{}}
    ELSE LET fewer == EdgeSets(E, k - 1)
         IN fewer \cup {s \cup {e} : s \in fewer, e \in E}

\* the apk whose methods call what the edges <<caller, callee>> say
GraphApk(edges) ==
    [permissions |-> {},
     bytecode |-> [m \in AllMethods |->
                     LET calls == {Invoke(<<>>, e[2]) : e \in {x \in edges : x[1] = m}}
                     IN CHOOSE body \in Orders(calls) : TRUE]]

\* the call graphs of the search: mSend is called only, the others also call
SearchEdges == {mSendAll, mMain, mHelp, mLoc} \X {mSend, mSendAll, mMain, mHelp, mLoc}

SearchApks == {GraphApk(edges) : edges \in EdgeSets(SearchEdges, MaxEdges)}

SearchRule == RuleObject("search", {}, mSend, mLoc, 1)

InitSearch == Analysis(SearchApks, {1}, {SearchRule})

SpecSearch == InitSearch /\ [][Next]_vars

---------------------------------------------------------------------------
(* Analyses of apks whose mutual parent mMain reaches mLoc through mSend   *)
(* and mNet through mSendAll and mHelp.                                    *)

ParamInstrs ==
    {NewInstance("v0"), Move("v1", "v0")}
        \cup {Invoke(<<r>>, m) : r \in Registers, m \in {mSend, mSendAll, mHelp}}

ParamApks ==
    {[permissions |-> {},
      bytecode |-> [m \in AllMethods |->
                      CASE m = mMain -> body
                        [] m = mSend -> <<Invoke(<<"v0">>, mLoc)>>
                        [] m = mSendAll -> <<Invoke(<<"v0">>, mNet)>>
                        [] m = mHelp -> <<Invoke(<<"v0">>, mNet)>>
                        [] OTHER -> <<>>]] :
        body \in SeqsUpTo(ParamInstrs, MaxBody)}

ParamRule == RuleObject("param", {}, mLoc, mNet, 1)

InitParam == Analysis(ParamApks, {1}, {ParamRule})

SpecParam == InitParam /\ [][Next]_vars

---------------------------------------------------------------------------
(* One ascent, find_previous_method(base_method, parent_function, []),     *)
(* step by step.  stack holds the frames of the recursion; result holds    *)
(* the wrapper and visited_methods all frames share.                       *)

AscentEdges == {mSend, mSendAll, mLoc, mMain} \X {mSend, mSendAll, mLoc, mMain}

AscentApks == {GraphApk(edges) : edges \in EdgeSets(AscentEdges, MaxAscentEdges)}

Frame(base_method, pc, method_set) ==
    [base_method |-> base_method, pc |-> pc, method_set |-> method_set]

Top == stack[Len(stack)]
Pop == SubSeq(stack, 1, Len(stack) - 1)
SetTop(frame) == [stack EXCEPT ![Len(stack)] = frame]

InitAscent ==
    /\ apkinfo \in AscentApks
    /\ quark_analysis = NewQuarkAnalysis
    /\ rule_obj = RuleObject("", {}, NoMethod, NoMethod, 0)
    /\ outcome = Idle
    /\ history = <<>>
    /\ args \in {[op |-> "find_previous_method", base_method |-> mSend,
                  parent_function |-> p] : p \in {mSend, mMain}}
    /\ result = NewAscent
    /\ stack = <<Frame(mSend, "call", {})>>

AscentStep == UNCHANGED <<apkinfo, quark_analysis, rule_obj, outcome, history, args>>

\* method_set = self.apkinfo.upperfunc(...); visited_methods.add(base_method)
AscentQuery ==
    /\ stack # <<>>
    /\ Top.pc = "call"
    /\ LET method_set == upperfunc(apkinfo, Top.base_method.class_name,
                                   Top.base_method.name)
       IN /\ result' = Expand(result, Top.base_method)
          /\ stack' = SetTop(
                 IF method_set.is_none
                 THEN Frame(Top.base_method, "return", {})
                 ELSE IF ReachedParent(args.parent_function, method_set.items)
                      THEN Frame(Top.base_method, "wrap", {})
                      ELSE Frame(Top.base_method, "loop", method_set.items))
    /\ AscentStep

\* wrapper.append(base_method), and the call returns
AscentWrap ==
    /\ stack # <<>>
    /\ Top.pc = "wrap"
    /\ result' = Wrap(result, Top.base_method)
    /\ stack' = Pop
    /\ AscentStep

\* the loop takes an item that was visited: continue
AscentSkip ==
    /\ stack # <<>>
    /\ Top.pc = "loop"
    /\ \E item \in Top.method_set :
          /\ Skip(item, result.visited)
          /\ stack' = SetTop(Frame(Top.base_method, "loop", Top.method_set \ {item}))
    /\ UNCHANGED result
    /\ AscentStep

\* the loop takes another item: self.find_previous_method(item, ...)
AscentDescend ==
    /\ stack # <<>>
    /\ Top.pc = "loop"
    /\ Len(stack) < MaxDepth
    /\ \E item \in Top.method_set :
          /\ ~Skip(item, result.visited)
          /\ stack' = Append(SetTop(Frame(Top.base_method, "loop",
                                          Top.method_set \ {item})),
                             Frame(item, "call", {}))
    /\ UNCHANGED result
    /\ AscentStep

\* the loop is over, or method_set is None: the call returns
AscentReturn ==
    /\ stack # <<>>
    /\ \/ Top.pc = "return"
       \/ Top.pc = "loop" /\ Top.method_set = {}
    /\ stack' = Pop
    /\ UNCHANGED result
    /\ AscentStep

NextAscent ==
    AscentQuery \/ AscentWrap \/ AscentSkip \/ AscentDescend \/ AscentReturn

\* a call that is running keeps running
SpecAscent == InitAscent /\ [][NextAscent]_vars /\ WF_vars(NextAscent)

---------------------------------------------------------------------------
(* Properties of run (Spec) and of the reports (SpecReports).              *)

Ran == outcome.op = "run"

\* the rule's two APIs, and whether the symbol table resolves them
RuleApi(k) == Mth(rule_obj.x2n3n4_comb[k].class, rule_obj.x2n3n4_comb[k].method)
Resolves(k) == RuleApi(k) \in KnownMethods(apkinfo)

Cascading(check_item) ==
    \A k \in 1..5 : check_item[k] => \A j \in 1..(k - 1) : check_item[j]

\* check_item after the first n assignments of run
ChecksAfter(n) == [k \in 1..5 |-> \E i \in 1..n : rule_obj.writes[i] = k]

\* C1: in every state run goes through and in the state it ends in, whether
\* it returns or raises, check_item[k] implies check_item[j] for every j < k.
C1_Cascade ==
    /\ \A n \in 0..Len(rule_obj.writes) : Cascading(ChecksAfter(n))
    /\ ChecksAfter(Len(rule_obj.writes)) = rule_obj.check_item
    /\ Cascading(rule_obj.check_item)

\* a run that passed all five stages, with two mutual parents looked at
C1_Witness ==
    /\ Ran
    /\ rule_obj.check_item = <<TRUE, TRUE, TRUE, TRUE, TRUE>>
    /\ Len(outcome.log) = 2

\* C2: run returns normally for every rule and every apk; no error reaches
\* the caller, also when an API resolves and has no callers.
C2_RunReturns == Ran => outcome.exc = ""

\* the claim's same-parameter match of a parent: some value object has an
\* entry containing the first call's key and an entry containing the second's
ClaimedMatch(parent_function, first_wrapper, second_wrapper) ==
    LET table == show_table(EvalParent(apkinfo, parent_function))
    IN \E a \in DOMAIN first_wrapper : \E b \in DOMAIN second_wrapper :
         \E i \in DOMAIN table :
            /\ \E j \in DOMAIN table[i].called_by_func :
                  Contains(Pattern(first_wrapper[a]), table[i].called_by_func[j])
            /\ \E j \in DOMAIN table[i].called_by_func :
                  Contains(Pattern(second_wrapper[b]), table[i].called_by_func[j])

InSeq(x, seq) == \E i \in DOMAIN seq : seq[i] = x

\* C3: a mutual parent that passed the sequence check and in which some
\* value object is consumed by the first call and by the second call (in one
\* entry or in two) passes stage 5: check_item[4] is set and the parent is in
\* level_5_result.
C3_SameParameter ==
    Ran =>
      \A i \in DOMAIN outcome.log :
         LET e == outcome.log[i]
         IN (e.sequence /\ ClaimedMatch(e.parent, e.first_wrapper, e.second_wrapper))
              => /\ e.parameter
                 /\ rule_obj.check_item[5]
                 /\ InSeq(e.parent, quark_analysis.level_5_result)

\* C8: when stage 1 passes and exactly one API resolves, run ends with
\* check_item = [T,T,F,F,F], level_2_result holds exactly the resolved method,
\* first_api and second_api are not recorded and no stage 4 search is made;
\* when neither resolves, check_item = [T,F,F,F,F] and level_2_result is empty.
C8_Stage2And3 ==
    (Ran /\ rule_obj.x1_permission \subseteq apkinfo.permissions) =>
      /\ (Resolves(1) /\ ~Resolves(2)) =>
            /\ rule_obj.check_item = <<TRUE, TRUE, FALSE, FALSE, FALSE>>
            /\ quark_analysis.level_2_result = <<RuleApi(1)>>
      /\ (~Resolves(1) /\ Resolves(2)) =>
            /\ rule_obj.check_item = <<TRUE, TRUE, FALSE, FALSE, FALSE>>
            /\ quark_analysis.level_2_result = <<RuleApi(2)>>
      /\ (Resolves(1) # Resolves(2)) =>
            /\ quark_analysis.first_api = NoMethod
            /\ quark_analysis.second_api = NoMethod
            /\ outcome.parents = NoParents
            /\ outcome.log = <<>>
            /\ outcome.exc = ""
      /\ (~Resolves(1) /\ ~Resolves(2)) =>
            /\ rule_obj.check_item = <<TRUE, FALSE, FALSE, FALSE, FALSE>>
            /\ quark_analysis.level_2_result = <<>>

\* a run in which only the second API resolved
C8_Witness ==
    /\ Ran
    /\ rule_obj.x1_permission \subseteq apkinfo.permissions
    /\ ~Resolves(1)
    /\ Resolves(2)
    /\ rule_obj.check_item[2]

RECURSIVE SumScores(_, _)
SumScores(h, passed_only) ==
    IF h = <<>> THEN 0
    ELSE (IF passed_only /\ CountTrue(Head(h).check_item) < 5 THEN 0 ELSE Head(h).yscore)
            + SumScores(Tail(h), passed_only)

---------------------------------------------------------------------------
(* Properties of the call-graph search (SpecSearch), of the sequence check *)
(* (Spec), of the evidence (SpecParam) and of the ascent (SpecAscent).     *)

\* c calls m: some instruction of c invokes m
Calls(c, m) ==
    \E i \in DOMAIN apkinfo.bytecode[c] :
       /\ IsInvoke(apkinfo.bytecode[c][i])
       /\ apkinfo.bytecode[c][i].parameter = Pattern(m)

\* x is an ancestor of m within k caller levels (direct callers: level 1)
RECURSIVE AncestorWithin(_, _, _)
AncestorWithin(x, m, k) ==
    /\ k >= 1
    /\ \/ Calls(x, m)
       \/ \E y \in AllMethods : Calls(y, m) /\ AncestorWithin(x, y, k - 1)

\* the methods that are ancestors of both rule APIs within k levels
CommonWithin(k) ==
    {x \in AllMethods : AncestorWithin(x, RuleApi(1), k) /\ AncestorWithin(x, RuleApi(2), k)}

\* run reached the search with two non-empty caller lists
Searched ==
    /\ Ran
    /\ rule_obj.check_item[3]
    /\ \E c \in AllMethods : Calls(c, RuleApi(1))
    /\ \E c \in AllMethods : Calls(c, RuleApi(2))

\* C4: for two non-empty caller lists find_intersection returns a set exactly
\* when some method is an ancestor of both APIs within 3 levels, and then the
\* common ancestors within the smallest such number of levels; otherwise it
\* returns None and check_item[3] stays false.
C4_DepthCap ==
    Searched =>
      /\ (outcome.parents.kind = "set") <=> (CommonWithin(MAX_SEARCH_LAYER) # {})
      /\ CommonWithin(MAX_SEARCH_LAYER) = {} =>
            /\ outcome.parents = FoundNone
            /\ ~rule_obj.check_item[4]
      /\ \A k \in 1..MAX_SEARCH_LAYER :
            (CommonWithin(k) # {} /\ \A j \in 1..(k - 1) : CommonWithin(j) = {})
               => outcome.parents = Found(CommonWithin(k))

\* the closest common ancestor is at depth 4, and the search returned None
C4_Witness ==
    /\ Searched
    /\ CommonWithin(MAX_SEARCH_LAYER) = {}
    /\ CommonWithin(MAX_SEARCH_LAYER + 1) # {}
    /\ outcome.parents = FoundNone

\* a common ancestor at depth 3, not closer, is returned
C4_FoundAtDepth3 ==
    /\ Searched
    /\ CommonWithin(2) = {}
    /\ outcome.parents.kind = "set"

\* parent calls first_call at an offset smaller than one of a call of second_call
CalledInOrder(parent_function, first_call, second_call) ==
    \E i, j \in DOMAIN apkinfo.bytecode[parent_function] :
       /\ i < j
       /\ IsInvoke(apkinfo.bytecode[parent_function][i])
       /\ apkinfo.bytecode[parent_function][i].parameter = Pattern(first_call)
       /\ IsInvoke(apkinfo.bytecode[parent_function][j])
       /\ apkinfo.bytecode[parent_function][j].parameter = Pattern(second_call)

\* C6: check_sequence(P, W0, W1) is true exactly when for some w0 of W0 and w1
\* of W1, P calls w0 at an offset strictly smaller than that of a call of w1;
\* when no mutual parent passes, check_item stays [T,T,T,F,F].
C6_Sequence ==
    Ran =>
      /\ \A n \in DOMAIN outcome.log :
            LET e == outcome.log[n]
            IN e.sequence <=>
                 \E a \in DOMAIN e.first_wrapper : \E b \in DOMAIN e.second_wrapper :
                    CalledInOrder(e.parent, e.first_wrapper[a], e.second_wrapper[b])
      /\ (rule_obj.check_item[3] /\ \A n \in DOMAIN outcome.log : ~outcome.log[n].sequence)
            => rule_obj.check_item = <<TRUE, TRUE, TRUE, FALSE, FALSE>>

\* the mutual parent calls the second API and then the first: stage 4 fails
C6_Witness ==
    /\ Ran
    /\ Len(outcome.log) = 1
    /\ RuleApi(1) # RuleApi(2)
    /\ CalledInOrder(outcome.log[1].parent, RuleApi(2), RuleApi(1))
    /\ outcome.log[1].first_wrapper = <<RuleApi(1)>>
    /\ outcome.log[1].second_wrapper = <<RuleApi(2)>>
    /\ ~outcome.log[1].sequence
    /\ rule_obj.check_item = <<TRUE, TRUE, TRUE, FALSE, FALSE>>

\* C9: every evidence record of call_graph_analysis_list names a pair
\* (first_call, second_call) that itself passes the same-parameter test in
\* the record's parent.
C9_EvidenceMatches ==
    \A n \in DOMAIN quark_analysis.call_graph_analysis_list :
       LET rec == quark_analysis.call_graph_analysis_list[n]
       IN ParameterPair(apkinfo, rec.parent, rec.first_call, rec.second_call)

AscentDone == args.op = "find_previous_method" /\ stack = <<>>

NoRepeats(seq) == \A i, j \in DOMAIN seq : seq[i] = seq[j] => i = j

\* C7: on every call graph, cyclic ones included, the ascent terminates, and
\* no method has upperfunc queried for it more than once.
C7_AscentTerminates == [](NoRepeats(result.expanded)) /\ <>(stack = <<>>)

\* an ascent that ended after it met a cycle among the methods it visited
C7_Witness ==
    /\ AscentDone
    /\ Len(result.expanded) >= 3
    /\ \E x, y \in result.visited : Calls(x, y) /\ Calls(y, x)

\* C10: every method of wrapper is base_method or reachable from it along
\* caller edges, has parent_function among its direct callers, and occurs in
\* wrapper once.
C10_WrapperSound ==
    args.op = "find_previous_method" =>
      /\ NoRepeats(result.wrapper)
      /\ \A i \in DOMAIN result.wrapper :
            LET m == result.wrapper[i]
            IN /\ \/ m = args.base_method
                  \/ AncestorWithin(m, args.base_method, Cardinality(AllMethods))
               /\ Calls(args.parent_function, m)

\* an ascent that ended with two wrappers, found along two paths
C10_Witness ==
    /\ AscentDone
    /\ Len(result.wrapper) = 2

\* The ascent step by step ends as the ascent as one call can end.
AscentAgrees ==
    AscentDone =>
      result \in find_previous_method(apkinfo, args.base_method,
                                      args.parent_function, NewAscent)

====
